---------------------------- MODULE Spec2Model ----------------------------
(***************************************************************************)
(* A model of kalamos, a static-site generator.                             *)
(*                                                                           *)
(*   - the frontmatter/body splitter (src/src/parser.rs, extract_frontmatter)*)
(*   - path resolution for posts and pages (src/src/post.rs, page.rs)        *)
(*   - the markdown renderer and document assembly (parse_markdown,          *)
(*     from_content, to_context)                                             *)
(*   - the render pass (src/src/render.rs, render_dir)                       *)
(*   - serve mode: the initial render, the server and watcher threads and    *)
(*     the watcher loop (src/src/main.rs, src/src/watch.rs)                  *)
(*                                                                           *)
(* Text is a sequence of one-character strings, so that splitting, joining   *)
(* and trimming are computed character by character as the code does.        *)
(***************************************************************************)
EXTENDS Integers, Sequences, FiniteSets, TLC

VARIABLES
    doc,        \* splitter: the document text handed to extract_frontmatter
    split,      \* splitter: the value extract_frontmatter returned, or NoResult
    tree,       \* render pass: the files of the content root read so far
    pc,         \* render pass: the position of render_dir
    result,     \* render pass: what render_dir returned, once pc = "done"
    templates,  \* render pass: the template set load_templates returned
    posts,      \* render pass: the `posts` vector of render_dir
    pages,      \* render pass: the `pages` vector of render_dir
    next,       \* render pass: index of the next post or page to render
    copied,     \* render pass: the direct_copy files copied so far
    out,        \* the files under the output root: path -> content
    outBefore,  \* history: the output root as it was when the pass started
    handed,     \* history: the `posts` argument of every render call so far
    touched,    \* history: the output paths this pass created or overwrote
    occurred,   \* history: the errors raised so far, returned or not
    docKind,    \* one document: "Post" or "Page"
    docPath,    \* one document: its path, relative to the content root
    docText,    \* one document: the text of the file
    docFile,    \* one document: what FileType::try_from(path) returned
    docEntity,  \* one document: what from_content(file, content) returned
    docContext, \* one document: what to_context() returned
    docParsed,  \* one document: what parse_markdown(content) returned
    loopEvents, \* markdown loop: the events of the body, in order
    loopAt,     \* markdown loop: the number of events the loop has taken
    loopState,  \* markdown loop: the local variables of parse_markdown
    serve       \* serve mode: the threads, the channel of change events and
                \* the history of what the watcher loop did with them

splitVars == <<doc, split>>

loopVars == <<loopEvents, loopAt, loopState>>

\* the variables of one document, those of the loop over its events included
documentVars == <<docKind, docPath, docText, docFile, docEntity, docContext,
                  docParsed, loopVars>>

renderVars == <<tree, pc, result, templates, posts, pages, next, copied, out,
                outBefore, handed, touched, occurred>>

vars == <<doc, split, tree, pc, result, templates, posts, pages, next, copied,
          out, outBefore, handed, touched, occurred, docKind, docPath, docText,
          docFile, docEntity, docContext, docParsed, loopEvents, loopAt,
          loopState, serve>>

----------------------------------------------------------------------------
(* Text helpers: what Rust's str methods compute.                           *)

\* char::is_whitespace, over the characters the model uses
IsWhitespace(c) == c \in {" ", "\n", "\t"}

\* str::starts_with at offset i (1-based): pat occurs in s at position i
OccursAt(s, pat, i) ==
    /\ i >= 1
    /\ i + Len(pat) - 1 <= Len(s)
    /\ SubSeq(s, i, i + Len(pat) - 1) = pat

\* str::find: the leftmost position of pat in s, or 0 when there is none
Find(s, pat) ==
    LET hits == {i \in 1..Len(s) : OccursAt(s, pat, i)}
    IN  IF hits = {} THEN 0 ELSE CHOOSE i \in hits : \A j \in hits : i <= j

\* F applied to the value of e, which is computed once
Let(e, F(_)) == CHOOSE r \in {F(x) : x \in {e}} : TRUE

\* str::split(pat): leftmost non-overlapping matches; always at least one piece
RECURSIVE Split(_, _)
Split(s, pat) ==
    Let(Find(s, pat), LAMBDA i :
        IF i = 0
        THEN <<s>>
        ELSE <<SubSeq(s, 1, i - 1)>>
                 \o Let(SubSeq(s, i + Len(pat), Len(s)),
                        LAMBDA rest : Split(rest, pat)))

\* [String]::join(sep)
RECURSIVE Join(_, _)
Join(parts, sep) ==
    IF Len(parts) = 0 THEN <<>>
    ELSE IF Len(parts) = 1 THEN parts[1]
    ELSE parts[1] \o sep \o Join(Tail(parts), sep)

\* str::trim_start
RECURSIVE TrimStart(_)
TrimStart(s) ==
    IF Len(s) > 0 /\ IsWhitespace(s[1]) THEN TrimStart(Tail(s)) ELSE s

\* str::trim_end
RECURSIVE TrimEnd(_)
TrimEnd(s) ==
    IF Len(s) > 0 /\ IsWhitespace(s[Len(s)])
    THEN TrimEnd(SubSeq(s, 1, Len(s) - 1))
    ELSE s

\* a trim that would take everything for whitespace
TrimAll(s) == <<>>

\* str::trim
Trim(s) == TrimEnd(TrimStart(s))

----------------------------------------------------------------------------
(* Byte order of text, and paths. A path is a sequence of components, each  *)
(* a text; an absolute path starts with the component RootDir.              *)

\* the characters paths are made of, in byte (ASCII) order
ByteOrder ==
    <<"-", ".", "/", "0", "1", "2", "3", "4", "5", "6", "7", "8", "9", "_",
      "a", "b", "c", "d", "e", "f", "g", "h", "i", "j", "k", "l", "m",
      "n", "o", "p", "q", "r", "s", "t", "u", "v", "w", "x", "y", "z">>

\* the rank of a character in byte order
Code(c) == CHOOSE i \in 1..Len(ByteOrder) : ByteOrder[i] = c

\* Ord for str / OsStr: lexicographic on bytes, a proper prefix comes first
RECURSIVE StrLess(_, _)
StrLess(a, b) ==
    IF Len(b) = 0 THEN FALSE
    ELSE IF Len(a) = 0 THEN TRUE
    ELSE IF a[1] # b[1] THEN Code(a[1]) < Code(b[1])
    ELSE StrLess(Tail(a), Tail(b))

\* Ord for Path: lexicographic on components
RECURSIVE PathLess(_, _)
PathLess(a, b) ==
    IF Len(b) = 0 THEN FALSE
    ELSE IF Len(a) = 0 THEN TRUE
    ELSE IF a[1] # b[1] THEN StrLess(a[1], b[1])
    ELSE PathLess(Tail(a), Tail(b))

RootDir == <<"/">>

\* the position of the last "." of a file name, or 0
LastDot(name) ==
    LET dots == {i \in 1..Len(name) : name[i] = "."}
    IN  IF dots = {} THEN 0 ELSE CHOOSE i \in dots : \A j \in dots : j <= i

\* Path::file_name, for a path of normal components
FileName(path) == path[Len(path)]

\* Path::extension on the file name: the text after the last ".", unless the
\* name has no "." or only a leading one (then None, here the empty text as
\* after unwrap_or_default)
Extension(path) ==
    LET name == FileName(path)
        dot  == LastDot(name)
    IN  IF dot <= 1 THEN <<>> ELSE SubSeq(name, dot + 1, Len(name))

\* Path::file_stem on the file name
FileStem(path) ==
    LET name == FileName(path)
        dot  == LastDot(name)
    IN  IF dot <= 1 THEN name ELSE SubSeq(name, 1, dot - 1)

\* Path::with_extension(ext): the stem, then "." and ext unless ext is empty
WithExtension(path, ext) ==
    LET stem == FileStem(path)
        name == IF ext = <<>> THEN stem ELSE stem \o <<".">> \o ext
    IN  SubSeq(path, 1, Len(path) - 1) \o <<name>>

\* Path::strip_prefix(prefix): Ok(rest) or Err
StripPrefix(path, prefix) ==
    IF Len(prefix) <= Len(path) /\ SubSeq(path, 1, Len(prefix)) = prefix
    THEN [ok |-> TRUE, path |-> SubSeq(path, Len(prefix) + 1, Len(path))]
    ELSE [ok |-> FALSE]

----------------------------------------------------------------------------
(* Numbers and dates (chrono::NaiveDate). A date is <<year, month, day>>.   *)

Digits == <<"0", "1", "2", "3", "4", "5", "6", "7", "8", "9">>

\* char::is_ascii_digit
IsDigit(c) == c \in {"0", "1", "2", "3", "4", "5", "6", "7", "8", "9"}

DigitValue(c) == (CHOOSE i \in 1..Len(Digits) : Digits[i] = c) - 1

AllDigits(s) == \A i \in 1..Len(s) : IsDigit(s[i])

\* the number a text of digits denotes
RECURSIVE ParseNumber(_)
ParseNumber(s) ==
    IF Len(s) = 0 THEN 0
    ELSE 10 * ParseNumber(SubSeq(s, 1, Len(s) - 1)) + DigitValue(s[Len(s)])

\* a number written with at least `width` digits, zero-padded
RECURSIVE FormatNumber(_, _)
FormatNumber(n, width) ==
    IF n < 10 /\ width <= 1 THEN <<Digits[n + 1]>>
    ELSE FormatNumber(n \div 10, width - 1) \o <<Digits[(n % 10) + 1]>>

IsLeapYear(y) == (y % 4 = 0 /\ y % 100 # 0) \/ y % 400 = 0

DaysInMonth(y, m) ==
    IF m = 2 THEN (IF IsLeapYear(y) THEN 29 ELSE 28)
    ELSE IF m \in {4, 6, 9, 11} THEN 30
    ELSE 31

\* NaiveDate::parse_from_str(text, "%Y-%m-%d") for a text without sign or
\* blanks: 1..4 digits of year, "-", 1..2 of month, "-", 1..2 of day, the end;
\* then the date must exist. Zero padding is not required.
ParseDate(text) ==
    Let(Split(text, <<"-">>), LAMBDA parts :
        IF Len(parts) # 3 THEN [ok |-> FALSE]
        ELSE LET ys == parts[1]
                 ms == parts[2]
                 ds == parts[3]
             IN  IF ~(/\ Len(ys) \in 1..4 /\ AllDigits(ys)
                      /\ Len(ms) \in 1..2 /\ AllDigits(ms)
                      /\ Len(ds) \in 1..2 /\ AllDigits(ds))
                 THEN [ok |-> FALSE]
                 ELSE Let(<<ParseNumber(ys), ParseNumber(ms), ParseNumber(ds)>>,
                          LAMBDA date :
                            IF /\ date[2] \in 1..12
                               /\ date[3] >= 1
                               /\ date[3] <= DaysInMonth(date[1], date[2])
                            THEN [ok |-> TRUE, date |-> date]
                            ELSE [ok |-> FALSE]))

\* Ord for NaiveDate
DateLess(a, b) ==
    \/ a[1] < b[1]
    \/ a[1] = b[1] /\ a[2] < b[2]
    \/ a[1] = b[1] /\ a[2] = b[2] /\ a[3] < b[3]

\* a date path that would write year and month as plain numbers
DatePathPlain(date) == <<FormatNumber(date[1], 1), FormatNumber(date[2], 1)>>

\* date.format("%Y/%m") as path components: 4-digit year, 2-digit month
DatePath(date) == <<FormatNumber(date[1], 4), FormatNumber(date[2], 2)>>

----------------------------------------------------------------------------
(* toml::from_str, restricted to the documents the model builds: lines of   *)
(* `key = value` with a bare key and an integer or basic-string value,      *)
(* blank lines, and nothing else. A table is a set of [key, type, value].   *)

IsBareKeyChar(c) ==
    \/ IsDigit(c)
    \/ c \in {"a", "b", "c", "d", "e", "f", "g", "h", "i", "j", "k", "l", "m",
              "n", "o", "p", "q", "r", "s", "t", "u", "v", "w", "x", "y", "z",
              "_", "-"}

IsBareKey(k) == Len(k) > 0 /\ \A i \in 1..Len(k) : IsBareKeyChar(k[i])

\* an integer: an optional sign, then digits without a leading zero
IsTomlInteger(v) ==
    LET digits == IF Len(v) > 0 /\ v[1] \in {"+", "-"} THEN Tail(v) ELSE v
    IN  /\ Len(digits) > 0
        /\ \A i \in 1..Len(digits) : IsDigit(digits[i])
        /\ (Len(digits) > 1 => digits[1] # "0")

\* a basic string: quoted, with no quote, backslash or line break inside
IsTomlString(v) ==
    /\ Len(v) >= 2
    /\ v[1] = "\""
    /\ v[Len(v)] = "\""
    /\ \A i \in 2..(Len(v) - 1) : v[i] \notin {"\"", "\\", "\n"}

\* one line of a TOML document: blank, or key = value
TomlEntry(k, v) ==
    IF ~IsBareKey(k) THEN [ok |-> FALSE]
    ELSE IF IsTomlString(v)
    THEN [ok |-> TRUE, blank |-> FALSE, key |-> k, type |-> "string",
          value |-> SubSeq(v, 2, Len(v) - 1)]
    ELSE IF IsTomlInteger(v)
    THEN [ok |-> TRUE, blank |-> FALSE, key |-> k, type |-> "integer",
          value |-> v]
    ELSE [ok |-> FALSE]

TomlLine(line) ==
    Let(Trim(line), LAMBDA t :
        Let(Find(t, <<"=">>), LAMBDA eq :
            IF t = <<>> THEN [ok |-> TRUE, blank |-> TRUE]
            ELSE IF eq = 0 THEN [ok |-> FALSE]
            ELSE Let(<<Trim(SubSeq(t, 1, eq - 1)), Trim(SubSeq(t, eq + 1, Len(t)))>>,
                     LAMBDA kv : TomlEntry(kv[1], kv[2]))))

\* toml::from_str: every line parses and no key is defined twice
TomlFromLines(parsed) ==
    LET entries == {i \in 1..Len(parsed) : parsed[i].ok /\ ~parsed[i].blank}
    IN  IF \E i \in 1..Len(parsed) : ~parsed[i].ok
        THEN [ok |-> FALSE]
        ELSE IF \E i, j \in entries : i # j /\ parsed[i].key = parsed[j].key
        THEN [ok |-> FALSE]
        ELSE [ok |-> TRUE,
              table |-> {[key |-> parsed[i].key, type |-> parsed[i].type,
                          value |-> parsed[i].value] : i \in entries}]

TomlFromStr(text) ==
    Let(Split(text, <<"\n">>), LAMBDA lines :
        Let([i \in 1..Len(lines) |-> TomlLine(lines[i])] \o <<>>,
            LAMBDA parsed : TomlFromLines(parsed)))

\* toml::from_str(""): the empty table
EmptyFrontmatter == {}

----------------------------------------------------------------------------
(* The frontmatter/body splitter.                                           *)

\* the pattern the document is split on: "+++\n"
Delimiter == <<"+", "+", "+", "\n">>

\* the separator the body sections are joined with: "\n+++\n"
JoinSeparator == <<"\n", "+", "+", "+", "\n">>

\* a split on the separator the body is joined with
SectionsBySeparator(markdown) == Split(markdown, JoinSeparator)

\* markdown.split("+++\n")
Sections(markdown) == Split(markdown, Delimiter)

\* extract_frontmatter: Ok((frontmatter, body)) or Err(error)
extract_frontmatter(markdown) ==
    Let(Sections(markdown), LAMBDA sections :
        IF Len(sections) < 3
        THEN [ok |-> TRUE, frontmatter |-> EmptyFrontmatter,
              body |-> Join(sections, JoinSeparator)]
        ELSE LET before == sections[1]
             IN  IF Trim(before) # <<>>
                 THEN [ok |-> FALSE, error |-> "ContentBeforeFrontmatter"]
                 ELSE Let(TomlFromStr(sections[2]), LAMBDA parsed :
                          IF ~parsed.ok
                          THEN [ok |-> FALSE, error |-> "InvalidFrontmatter"]
                          ELSE [ok |-> TRUE, frontmatter |-> parsed.table,
                                body |-> Join(SubSeq(sections, 3, Len(sections)),
                                              JoinSeparator)]))

----------------------------------------------------------------------------
(* The markdown renderer. pulldown_cmark::Parser is modelled on bodies made *)
(* of whole lines of five sorts: blank lines, fence lines (three tildes   *)
(* and an info string), comment lines (closed on the line), lines indented  *)
(* by four spaces and lines of plain text. An event is a record             *)
(* [type, tag, text].                                                       *)

Event(type, tag, text) == [type |-> type, tag |-> tag, text |-> text]

\* the excerpt marker, as the Html event of its line: "<!--more-->\n"
More == <<"<", "!", "-", "-", "m", "o", "r", "e", "-", "-", ">">>
MoreLine == More \o <<"\n">>

\* a code fence, in its tilde form
Fence == <<"~", "~", "~">>
CommentOpen == <<"<", "!", "-", "-">>
CommentClose == <<"-", "-", ">">>

IsBlankLine(line) == Trim(line) = <<>>
IsFenceLine(line) == OccursAt(line, Fence, 1)
IsCommentLine(line) ==
    OccursAt(line, CommentOpen, 1) /\ Find(line, CommentClose) # 0

\* the lines of a body: [text, terminated], the last one possibly without
\* its line break
BodyLines(body) ==
    Let(Split(body, <<"\n">>), LAMBDA pieces :
        LET n == IF pieces[Len(pieces)] = <<>> THEN Len(pieces) - 1
                 ELSE Len(pieces)
        IN  [i \in 1..n |-> [text |-> pieces[i],
                             terminated |-> i < Len(pieces)]])

\* the text of a line with its line break, when it has one
WithBreak(line) ==
    IF line.terminated THEN line.text \o <<"\n">> ELSE line.text

\* a line of an indented code block: four spaces, then something
Indent == <<" ", " ", " ", " ">>
IsIndentedLine(line) == OccursAt(line, Indent, 1) /\ Trim(line) # <<>>

\* Start(Tag::CodeBlock(kind)): Fenced(language) or Indented
CodeBlockStart(kind, language) ==
    [type |-> "Start", tag |-> "CodeBlock", text |-> language, kind |-> kind]

\* after line i, more of an indented code block comes: blank lines, then an
\* indented line
RECURSIVE IndentedGoesOn(_, _)
IndentedGoesOn(lines, i) ==
    IF i >= Len(lines) THEN FALSE
    ELSE IF IsBlankLine(lines[i + 1].text) THEN IndentedGoesOn(lines, i + 1)
    ELSE IsIndentedLine(lines[i + 1].text)

\* the events of the lines from i on; mode is the block that is open:
\* "none", "paragraph", "code" (fenced) or "indented"
RECURSIVE EventsFrom(_, _, _)
EventsFrom(lines, i, mode) ==
    LET closing == IF mode = "paragraph"
                   THEN <<Event("End", "Paragraph", <<>>)>> ELSE <<>>
    IN  IF i > Len(lines)
        THEN IF mode \in {"code", "indented"}
             THEN <<Event("End", "CodeBlock", <<>>)>>
             ELSE closing
        ELSE LET line == lines[i].text
             IN  IF mode = "code"
                 THEN IF IsFenceLine(line) /\ Trim(line) = Fence
                      THEN <<Event("End", "CodeBlock", <<>>)>>
                               \o EventsFrom(lines, i + 1, "none")
                      ELSE <<Event("Text", "", WithBreak(lines[i]))>>
                               \o EventsFrom(lines, i + 1, "code")
                 ELSE IF mode = "indented"
                 THEN IF IsIndentedLine(line)
                      THEN <<Event("Text", "",
                                   SubSeq(WithBreak(lines[i]), 5,
                                          Len(WithBreak(lines[i]))))>>
                               \o EventsFrom(lines, i + 1, "indented")
                      ELSE IF IsBlankLine(line) /\ IndentedGoesOn(lines, i)
                      THEN <<Event("Text", "", <<"\n">>)>>
                               \o EventsFrom(lines, i + 1, "indented")
                      ELSE <<Event("End", "CodeBlock", <<>>)>>
                               \o EventsFrom(lines, i, "none")
                 ELSE IF IsBlankLine(line)
                 THEN closing \o EventsFrom(lines, i + 1, "none")
                 ELSE IF IsIndentedLine(line) /\ mode = "none"
                 THEN <<CodeBlockStart("Indented", <<>>)>>
                          \o EventsFrom(lines, i, "indented")
                 ELSE IF IsFenceLine(line)
                 THEN closing
                          \o <<CodeBlockStart("Fenced",
                                              Trim(SubSeq(line, 4, Len(line))))>>
                          \o EventsFrom(lines, i + 1, "code")
                 ELSE IF IsCommentLine(line)
                 THEN closing
                          \o <<Event("Start", "HtmlBlock", <<>>),
                               Event("Html", "", WithBreak(lines[i])),
                               Event("End", "HtmlBlock", <<>>)>>
                          \o EventsFrom(lines, i + 1, "none")
                 ELSE IF mode = "paragraph"
                 THEN <<Event("SoftBreak", "", <<>>),
                        Event("Text", "", TrimStart(line))>>
                          \o EventsFrom(lines, i + 1, "paragraph")
                 ELSE <<Event("Start", "Paragraph", <<>>),
                        Event("Text", "", TrimStart(line))>>
                          \o EventsFrom(lines, i + 1, "paragraph")

\* pulldown_cmark::Parser::new(&body), collected
MarkdownEvents(body) == EventsFrom(BodyLines(body), 1, "none")

\* pulldown_cmark::escape::escape_html on one character
EscapeChar(c) ==
    IF c = "<" THEN "&lt;"
    ELSE IF c = ">" THEN "&gt;"
    ELSE IF c = "&" THEN "&amp;"
    ELSE IF c = "\"" THEN "&quot;"
    ELSE c

EscapeHtml(text) == [i \in 1..Len(text) |-> EscapeChar(text[i])]

\* the output of one event in pulldown_cmark::html::push_html, after `html`
EventHtml(html, event) ==
    IF event.type = "Start" /\ event.tag = "Paragraph"
    THEN (IF html # <<>> /\ html[Len(html)] # "\n" THEN <<"\n">> ELSE <<>>)
             \o <<"<p>">>
    ELSE IF event.type = "End" /\ event.tag = "Paragraph"
    THEN <<"</p>", "\n">>
    ELSE IF event.type = "Text" THEN EscapeHtml(event.text)
    ELSE IF event.type = "SoftBreak" THEN <<"\n">>
    ELSE IF event.type = "Html" THEN event.text
    ELSE <<>>

\* pulldown_cmark::html::push_html(&mut html, events)
RECURSIVE PushHtml(_, _)
PushHtml(html, events) ==
    IF Len(events) = 0 THEN html
    ELSE PushHtml(html \o EventHtml(html, events[1]), Tail(events))

\* syntect: the tokens find_syntax_by_token knows (two of them), and the
\* markup highlighted_html_for_string wraps the code in
Rs == <<"r", "s">>
Py == <<"p", "y">>
KnownSyntaxes == {Rs, Py}

SyntaxSpan(token) ==
    IF token = Rs THEN "<span rust>"
    ELSE IF token = Py THEN "<span python>"
    ELSE "<span plain>"

\* find_syntax_by_token(token).unwrap_or(default_syntax), then
\* highlighted_html_for_string(contents, syntax)
Highlighted(contents, token) ==
    <<"<pre>", "\n", SyntaxSpan(IF token \in KnownSyntaxes THEN token ELSE <<>>)>>
        \o EscapeHtml(contents) \o <<"</span>", "</pre>", "\n">>

\* the state of the loop of parse_markdown before the first event
LoopStart ==
    [highlighted_events |-> <<>>,
     excerpt_events     |-> <<>>,
     still_excerpting   |-> TRUE,
     in_codeblock       |-> FALSE,
     codeblock_contents |-> <<>>,
     syntax_extension   |-> <<>>]

\* a push that would go to both lists whatever the flag
PushedToBoth(s, event) ==
    [s EXCEPT !.highlighted_events = @ \o <<event>>,
              !.excerpt_events = @ \o <<event>>]

\* highlighted_events.push(event); if still_excerpting, excerpt_events too
Pushed(s, event) ==
    [s EXCEPT !.highlighted_events = @ \o <<event>>,
              !.excerpt_events = IF s.still_excerpting THEN @ \o <<event>>
                                 ELSE @]

\* one turn of the loop of parse_markdown: the match on the event
LoopStep(s, event) ==
    IF event.type = "Html"
    THEN IF event.text = MoreLine THEN [s EXCEPT !.still_excerpting = FALSE]
         ELSE s
    ELSE IF event.type = "Start" /\ event.tag = "CodeBlock"
    THEN [s EXCEPT !.syntax_extension = IF event.kind = "Fenced"
                                        THEN event.text ELSE @,
                   !.in_codeblock = TRUE,
                   !.codeblock_contents = <<>>]
    ELSE IF event.type = "End" /\ event.tag = "CodeBlock"
    THEN Pushed([s EXCEPT !.in_codeblock = FALSE],
                Event("Html", "",
                      Highlighted(s.codeblock_contents, s.syntax_extension)))
    ELSE IF event.type = "Text" /\ s.in_codeblock
    THEN [s EXCEPT !.codeblock_contents = @ \o event.text]
    ELSE Pushed(s, event)

\* the loop of parse_markdown over all the events
RECURSIVE Loop(_, _)
Loop(s, events) ==
    IF Len(events) = 0 THEN s ELSE Loop(LoopStep(s, events[1]), Tail(events))

\* parse_markdown(markdown): Ok(FrontmatterAndBody) or Err(error). The
\* excerpt is a String, so there always is one: the rendering of
\* excerpt_events, whether the marker was met or not.
parse_markdown(markdown) ==
    Let(extract_frontmatter(markdown), LAMBDA fb :
        IF ~fb.ok THEN fb
        ELSE Let(Loop(LoopStart, MarkdownEvents(fb.body)), LAMBDA s :
                 [ok |-> TRUE,
                  frontmatter |-> fb.frontmatter,
                  body |-> PushHtml(<<>>, s.highlighted_events),
                  excerpt |-> [some |-> TRUE,
                               value |-> PushHtml(<<>>, s.excerpt_events)]]))

\* parser::parse(markdown): Ok(Document), whose excerpt is Some only when
\* the body held the marker, or Err(error)
parse(markdown) ==
    Let(extract_frontmatter(markdown), LAMBDA fb :
        IF ~fb.ok THEN fb
        ELSE Let(Loop(LoopStart, MarkdownEvents(fb.body)), LAMBDA s :
                 [ok |-> TRUE,
                  frontmatter |-> fb.frontmatter,
                  body |-> PushHtml(<<>>, s.highlighted_events),
                  excerpt |-> IF s.still_excerpting THEN [some |-> FALSE]
                              ELSE [some |-> TRUE,
                                    value |-> PushHtml(<<>>, s.excerpt_events)]]))

----------------------------------------------------------------------------
(* Path resolution (PostFile, PageFile) and document assembly (Post, Page). *)

Md       == <<"m", "d">>
Markdown == <<"m", "a", "r", "k", "d", "o", "w", "n">>
Html     == <<"h", "t", "m", "l">>
Xml      == <<"x", "m", "l">>
DotHtml  == <<".", "h", "t", "m", "l">>

\* Post::READ_DIRECTORY, Page::READ_DIRECTORY
PostsDirectory == <<"p", "o", "s", "t", "s">>
PagesDirectory == <<"p", "a", "g", "e", "s">>

\* a list of page extensions that would hold the markdown ones only
MarkdownOnly == {Md, Markdown}

\* Post::VALID_EXTENSIONS, Page::VALID_EXTENSIONS
PostValidExtensions == {Md, Markdown}
PageValidExtensions == {Md, Markdown, Html, Xml}

\* a default that would name another template
IndexTemplate == <<"i", "n", "d", "e", "x">>

\* Post::DEFAULT_TEMPLATE, Page::DEFAULT_TEMPLATE
PostDefaultTemplate == <<"p", "o", "s", "t">>
PageDefaultTemplate == <<"d", "e", "f", "a", "u", "l", "t">>

\* an extraction that would take the fourth part alone for the slug
extract_date_and_fourth_part(path) ==
    Let(Split(FileName(WithExtension(path, <<>>)), <<"-">>), LAMBDA parts :
        IF Len(parts) < 4
        THEN [ok |-> FALSE, error |-> "ExtractDate"]
        ELSE Let(ParseDate(Join(SubSeq(parts, 1, 3), <<"-">>)), LAMBDA date :
                 IF ~date.ok
                 THEN [ok |-> FALSE, error |-> "ParseDate"]
                 ELSE [ok |-> TRUE, date |-> date.date, slug |-> parts[4]]))

\* PostFile::extract_date_and_slug: Ok((date, slug)) or an error
extract_date_and_slug(path) ==
    Let(Split(FileName(WithExtension(path, <<>>)), <<"-">>), LAMBDA parts :
        IF Len(parts) < 4
        THEN [ok |-> FALSE, error |-> "ExtractDate"]
        ELSE Let(ParseDate(Join(SubSeq(parts, 1, 3), <<"-">>)), LAMBDA date :
                 IF ~date.ok
                 THEN [ok |-> FALSE, error |-> "ParseDate"]
                 ELSE [ok |-> TRUE, date |-> date.date,
                       slug |-> Join(SubSeq(parts, 4, Len(parts)), <<"-">>)]))

\* PostFile::try_from(path): Ok(PostFile) or an error
PostFile_try_from(path) ==
    Let(extract_date_and_slug(path), LAMBDA ds :
        LET extension == Extension(path)
        IN  IF ~ds.ok THEN [ok |-> FALSE, error |-> ds.error]
            ELSE IF extension \notin PostValidExtensions
            THEN [ok |-> FALSE, error |-> "Path"]
            ELSE [ok |-> TRUE,
                  date |-> ds.date,
                  slug |-> ds.slug,
                  extension |-> extension,
                  url |-> <<RootDir>> \o DatePath(ds.date) \o <<ds.slug \o DotHtml>>,
                  input_path |-> path,
                  output_path |-> DatePath(ds.date) \o <<ds.slug \o DotHtml>>])

\* a test that would take no extension for markdown
never_markdown(extension) == FALSE

\* Page::extension_is_markdown
extension_is_markdown(extension) == extension = Md \/ extension = Markdown

\* PageFile::try_from(path): Ok(PageFile) or an error
PageFile_try_from(path) ==
    LET slug          == FileName(WithExtension(path, <<>>))
        extension     == Extension(path)
        url_extension == IF extension_is_markdown(extension) THEN Html
                         ELSE extension
        stripped_path == StripPrefix(path, <<PagesDirectory>>)
    IN  IF extension \notin PageValidExtensions
        THEN [ok |-> FALSE, error |-> "Path"]
        ELSE IF ~stripped_path.ok
        THEN [ok |-> FALSE, error |-> "StripPrefix"]
        ELSE LET url == WithExtension(stripped_path.path, url_extension)
             IN  [ok |-> TRUE,
                  slug |-> slug,
                  extension |-> extension,
                  filename |-> FileName(path),
                  url |-> url,
                  input_path |-> path,
                  output_path |-> url]

TitleKey    == <<"t", "i", "t", "l", "e">>
TemplateKey == <<"t", "e", "m", "p", "l", "a", "t", "e">>

\* the entries of a frontmatter table under a key
Entries(table, key) == {e \in table : e.key = key}

\* a decoding that would take the empty string for a missing title
DecodeFrontmatterLenient(table) ==
    LET titles == Entries(table, TitleKey)
        tmpls  == Entries(table, TemplateKey)
    IN  IF \E e \in titles \cup tmpls : e.type # "string"
        THEN [ok |-> FALSE]
        ELSE [ok |-> TRUE,
              title |-> IF titles = {} THEN <<>>
                        ELSE (CHOOSE e \in titles : TRUE).value,
              template |-> IF tmpls = {} THEN [some |-> FALSE]
                           ELSE [some |-> TRUE,
                                 value |-> (CHOOSE e \in tmpls : TRUE).value]]

\* frontmatter.try_into::<PostFrontmatter / PageFrontmatter>(): `title` is a
\* required string, `template` an optional string, other keys are ignored
DecodeFrontmatter(table) ==
    LET titles    == Entries(table, TitleKey)
        tmpls     == Entries(table, TemplateKey)
    IN  IF titles = {} \/ \E e \in titles : e.type # "string"
        THEN [ok |-> FALSE]
        ELSE IF \E e \in tmpls : e.type # "string"
        THEN [ok |-> FALSE]
        ELSE [ok |-> TRUE,
              title |-> (CHOOSE e \in titles : TRUE).value,
              template |-> IF tmpls = {} THEN [some |-> FALSE]
                           ELSE [some |-> TRUE,
                                 value |-> (CHOOSE e \in tmpls : TRUE).value]]

\* frontmatter.template.unwrap_or(default), then push_str(".html")
TemplateName(template, default) ==
    (IF template.some THEN template.value ELSE default) \o DotHtml

\* Post::from_content(post_file, content): Ok(Post) or an error
Post_from_content(post_file, content) ==
    Let(parse(content), LAMBDA parsed :
        IF ~parsed.ok THEN [ok |-> FALSE, error |-> "Markdown"]
        ELSE Let(DecodeFrontmatter(parsed.frontmatter), LAMBDA res :
                 IF ~res.ok THEN [ok |-> FALSE, error |-> "ParseFrontmatter"]
                 ELSE [ok |-> TRUE,
                       value |-> [input_path |-> post_file.input_path,
                                 output_path |-> post_file.output_path,
                                 title |-> res.title,
                                 template |-> TemplateName(res.template,
                                                           PostDefaultTemplate),
                                 date |-> post_file.date,
                                 url |-> post_file.url,
                                 content |-> parsed.body,
                                 excerpt |-> IF parsed.excerpt.some
                                             THEN parsed.excerpt.value
                                             ELSE parsed.body,
                                 slug |-> post_file.slug]]))

\* Page::from_non_markdown_content: the body is kept as it is and the
\* template is always the default one
Page_from_non_markdown_content(content, page_file) ==
    Let(extract_frontmatter(content), LAMBDA parsed :
        IF ~parsed.ok THEN [ok |-> FALSE, error |-> "Markdown"]
        ELSE Let(DecodeFrontmatter(parsed.frontmatter), LAMBDA res :
                 IF ~res.ok THEN [ok |-> FALSE, error |-> "ParseFrontmatter"]
                 ELSE [ok |-> TRUE,
                       value |-> [input_path |-> page_file.input_path,
                                 output_path |-> page_file.output_path,
                                 url |-> page_file.url,
                                 title |-> res.title,
                                 template |-> PageDefaultTemplate \o DotHtml,
                                 content |-> parsed.body,
                                 slug |-> page_file.slug,
                                 extension |-> page_file.extension]]))

\* Page::from_markdown_content
Page_from_markdown_content(content, page_file) ==
    Let(parse_markdown(content), LAMBDA parsed :
        IF ~parsed.ok THEN [ok |-> FALSE, error |-> "Markdown"]
        ELSE Let(DecodeFrontmatter(parsed.frontmatter), LAMBDA res :
                 IF ~res.ok THEN [ok |-> FALSE, error |-> "ParseFrontmatter"]
                 ELSE [ok |-> TRUE,
                       value |-> [input_path |-> page_file.input_path,
                                 output_path |-> page_file.output_path,
                                 url |-> page_file.url,
                                 title |-> res.title,
                                 template |-> TemplateName(res.template,
                                                           PageDefaultTemplate),
                                 content |-> parsed.body,
                                 slug |-> page_file.slug,
                                 extension |-> page_file.extension]]))

\* Page::from_content(page_file, content): Ok(Page) or an error
Page_from_content(page_file, content) ==
    IF ~extension_is_markdown(page_file.extension)
    THEN Page_from_non_markdown_content(content, page_file)
    ELSE Page_from_markdown_content(content, page_file)

\* Post::to_context: the keys inserted and their values; the excerpt goes
\* under the key "context"
Post_to_context(post) ==
    [title       |-> post.title,
     path        |-> post.output_path,
     url         |-> post.url,
     date        |-> post.date,
     date_str    |-> FormatNumber(post.date[1], 4) \o <<"-">>
                         \o FormatNumber(post.date[2], 2) \o <<"-">>
                         \o FormatNumber(post.date[3], 2),
     date_struct |-> [year |-> post.date[1], month |-> post.date[2],
                      day |-> post.date[3]],
     body        |-> post.content,
     context     |-> post.excerpt,
     slug        |-> post.slug,
     next        |-> "nice"]

\* Page::to_context
Page_to_context(page) ==
    [title        |-> page.title,
     path         |-> page.output_path,
     url          |-> page.url,
     body         |-> page.content,
     slug         |-> page.slug,
     current_date |-> "today"]

\* Ord for Post (derived): the fields in declaration order, input_path first.
\* The posts of one pass come from distinct files, so input_path decides.
PostLess(a, b) == PathLess(a.input_path, b.input_path)

\* Vec::sort: ascending by Ord (insertion into a sorted list)
RECURSIVE InsertSorted(_, _)
InsertSorted(x, sorted) ==
    IF Len(sorted) = 0 THEN <<x>>
    ELSE IF PostLess(x, sorted[1]) THEN <<x>> \o sorted
    ELSE <<sorted[1]>> \o InsertSorted(x, Tail(sorted))

RECURSIVE Sort(_)
Sort(list) ==
    IF Len(list) = 0 THEN <<>>
    ELSE InsertSorted(list[Len(list)], Sort(SubSeq(list, 1, Len(list) - 1)))

\* Vec::reverse
RECURSIVE Reverse(_)
Reverse(list) ==
    IF Len(list) = 0 THEN <<>> ELSE Reverse(Tail(list)) \o <<list[1]>>

----------------------------------------------------------------------------
(* The splitter applied to bounded documents.                               *)

\* the longest document, in tokens
MaxTokens == 5

\* the pieces documents are built from
Tokens ==
    { Delimiter,                    \* a delimiter with its line break
      <<"+", "+", "+">>,            \* +++ without a line break
      <<"\n">>,
      <<" ">>,
      <<"x">>,                      \* text that is not TOML
      <<"t", "=", "1">> }           \* a TOML key/value

RECURSIVE Concat(_)
Concat(parts) == IF Len(parts) = 0 THEN <<>> ELSE parts[1] \o Concat(Tail(parts))

Docs == UNION {{Concat(ts) : ts \in [1..n -> Tokens]} : n \in 0..MaxTokens}

NoResult == [ok |-> FALSE, error |-> "none"]

----------------------------------------------------------------------------
(* The content root of a render pass: a few named files.                    *)

\* the most post files, page files and direct_copy files in a content root
MaxPosts  == 3
MaxPages  == 2
MaxCopies == 1

\* +++\ntitle="a"\n+++\nhi\n
TitledText ==
    Delimiter \o TitleKey \o <<"=", "\"", "a", "\"", "\n">> \o Delimiter
        \o <<"h", "i", "\n">>

\* hi\n : no frontmatter, so no title
UntitledText == <<"h", "i", "\n">>

PostFiles == {"first", "unpadded", "nested", "notes", "untitled", "binary", "twin"}
PageFiles == {"index", "about", "readme", "feed"}
CopyFiles == {"style", "logo", "clash"}

\* files under assets/, a directory render_dir never reads
AssetFiles == {"icon"}

\* files whose bytes are not UTF-8: fs::read_to_string fails on them
NotUtf8 == {"binary"}

DirectCopyDirectory == <<"d", "i", "r", "e", "c", "t", "_", "c", "o", "p", "y">>
AssetsDirectory == <<"a", "s", "s", "e", "t", "s">>

\* the path of each file, relative to the content root
FilePath(f) ==
    CASE f = "first"    -> <<PostsDirectory,
                             <<"2", "0", "2", "4", "-", "1", "2", "-", "0", "1",
                               "-", "a", ".", "m", "d">>>>
      [] f = "unpadded" -> <<PostsDirectory,
                             <<"2", "0", "2", "4", "-", "2", "-", "1",
                               "-", "b", ".", "m", "d">>>>
      [] f = "nested"   -> <<PostsDirectory, <<"o", "l", "d">>,
                             <<"2", "0", "2", "0", "-", "0", "1", "-", "0", "1",
                               "-", "c", ".", "m", "d">>>>
      [] f = "notes"    -> <<PostsDirectory,
                             <<"n", "o", "t", "e", "s", ".", "t", "x", "t">>>>
      [] f = "untitled" -> <<PostsDirectory,
                             <<"2", "0", "2", "4", "-", "1", "1", "-", "0", "1",
                               "-", "d", ".", "m", "d">>>>
      [] f = "binary"   -> <<PostsDirectory,
                             <<"2", "0", "2", "4", "-", "1", "1", "-", "0", "2",
                               "-", "e", ".", "m", "d">>>>
      [] f = "index"    -> <<PagesDirectory,
                             <<"i", "n", "d", "e", "x", ".", "h", "t", "m", "l">>>>
      [] f = "about"    -> <<PagesDirectory,
                             <<"a", "b", "o", "u", "t", ".", "m", "d">>>>
      [] f = "readme"   -> <<PagesDirectory,
                             <<"r", "e", "a", "d", "m", "e", ".", "t", "x", "t">>>>
      [] f = "feed"     -> <<PagesDirectory,
                             <<"f", "e", "e", "d", ".", "x", "m", "l">>>>
      [] f = "style"    -> <<DirectCopyDirectory,
                             <<"s", "t", "y", "l", "e", ".", "c", "s", "s">>>>
      [] f = "logo"     -> <<DirectCopyDirectory, <<"i", "m", "g">>,
                             <<"l", "o", "g", "o", ".", "p", "n", "g">>>>
      [] f = "twin"     -> <<PostsDirectory, <<"o", "l", "d">>,
                             <<"2", "0", "2", "4", "-", "1", "2", "-", "1",
                               "-", "a", ".">> \o Markdown>>
      [] f = "clash"    -> <<DirectCopyDirectory,
                             <<"a", "b", "o", "u", "t", ".", "h", "t", "m", "l">>>>
      [] f = "icon"     -> <<AssetsDirectory,
                             <<"i", "c", "o", "n", ".", "p", "n", "g">>>>

\* the text of each readable file
FileText(f) == IF f \in {"untitled", "feed"} THEN UntitledText ELSE TitledText

\* fs::read_to_string(root_dir.join(input_path))
ReadToString(f) ==
    IF f \in NotUtf8 THEN [ok |-> FALSE, error |-> "ReadFile"]
    ELSE [ok |-> TRUE, content |-> FileText(f)]

\* the orders in which WalkDir may yield the files of a directory
Orderings(files) ==
    {w \in [1..Cardinality(files) -> files] :
        \A a, b \in 1..Cardinality(files) : a # b => w[a] # w[b]}

\* the least index of a list of results that holds an error, or 0
FirstErr(results) ==
    LET hits == {k \in 1..Len(results) : ~results[k].ok}
    IN  IF hits = {} THEN 0 ELSE CHOOSE k \in hits : \A l \in hits : k <= l

\* a lenient collect, which would keep the successes and drop the failures
CollectOk(results) ==
    [ok |-> TRUE, list |-> SelectSeq(results, LAMBDA r : r.ok)]

\* collect::<Result<Vec<_>, Error>>(): the first error, or every result
Collect(results) ==
    IF FirstErr(results) # 0
    THEN [ok |-> FALSE, error |-> results[FirstErr(results)].error]
    ELSE [ok |-> TRUE, list |-> results]

\* the file of the content root that has this path
FileAt(path) == CHOOSE f \in PostFiles \cup PageFiles \cup CopyFiles : FilePath(f) = path

\* Self::FileType::try_from(path) and Self::from_content(post_file, content),
\* for the two kinds of entity that implement Render: "Post" and "Page"
FileType_try_from(kind, path) ==
    IF kind = "Post" THEN PostFile_try_from(path) ELSE PageFile_try_from(path)

from_content(kind, post_file, content) ==
    IF kind = "Post" THEN Post_from_content(post_file, content)
    ELSE Page_from_content(post_file, content)

to_context(kind, entity) ==
    IF kind = "Post" THEN Post_to_context(entity) ELSE Page_to_context(entity)

\* Render::read_from_directory over the files WalkDir yields, in that order:
\* resolve every path (the first error returns), then read and assemble every
\* file (the first error returns). Ok(entities) or the error.
read_from_directory(kind, walk) ==
    Let(Collect([k \in 1..Len(walk) |->
                    FileType_try_from(kind, FilePath(walk[k]))] \o <<>>),
        LAMBDA post_files :
          IF ~post_files.ok THEN post_files
          ELSE Let(Collect([k \in 1..Len(post_files.list) |->
                               Let(ReadToString(FileAt(post_files.list[k].input_path)),
                                   LAMBDA content :
                                     IF ~content.ok THEN content
                                     ELSE from_content(kind, post_files.list[k],
                                                       content.content))] \o <<>>),
                   LAMBDA entities :
                     IF ~entities.ok THEN entities
                     ELSE [ok |-> TRUE,
                           list |-> [k \in 1..Len(entities.list) |->
                                        entities.list[k].value]]))

PostHtml    == PostDefaultTemplate \o DotHtml
DefaultHtml == PageDefaultTemplate \o DotHtml

\* a target that would drop the directories of the file
CopyTargetFlat(f) == <<FileName(FilePath(f))>>

\* output_dir.join(p.strip_prefix(&direct_copy_path)): the path of the copy
\* of a direct_copy file, relative to the output root
CopyTarget(f) == StripPrefix(FilePath(f), <<DirectCopyDirectory>>).path

\* what a failed fs::write or fs::copy may leave at its target
Torn == [kind |-> "torn"]

\* a file left by an earlier pass
Stale == [kind |-> "stale"]

\* the output of templates.render(template, context): the template applied to
\* the document and the `posts` list of its context
Rendered(template, source, list) ==
    [kind |-> "rendered", template |-> template, source |-> source,
     posts |-> [k \in 1..Len(list) |-> list[k].input_path]]

\* a list that would leave out the document being rendered
OtherPosts(all, k) ==
    IF k > Len(all) THEN all
    ELSE SubSeq(all, 1, k - 1) \o SubSeq(all, k + 1, Len(all))

\* the `posts` argument render_dir passes to the render of document number k
HandedPosts(all, k) == all

----------------------------------------------------------------------------
(* The render pass: render_dir(root_dir, output_dir).                       *)

SplitIdle == doc = <<>> /\ split = NoResult

\* serve mode before `kalamos serve` has done anything
ServeUnstarted ==
    [main |-> "idle", server |-> "unstarted", watcher |-> "unstarted",
     rendering |-> {}, channel |-> <<>>, current |-> NoResult, renders |-> 0,
     sent |-> <<>>, handled |-> <<>>, logged |-> <<>>]

ServeIdle == serve = ServeUnstarted

DocumentIdle ==
    /\ docKind = "none"
    /\ docPath = <<>>
    /\ docText = <<>>
    /\ docFile = NoResult
    /\ docEntity = NoResult
    /\ docContext = NoResult
    /\ docParsed = NoResult
    /\ loopEvents = <<>>
    /\ loopAt = 0
    /\ loopState = LoopStart

RenderInit ==
    /\ \E assets \in SUBSET AssetFiles :
          tree = [posts |-> {}, pages |-> {}, copy |-> {}, layouts |-> {},
                  assets |-> assets]
    /\ pc = "load_templates"
    /\ result = [ok |-> FALSE, error |-> "running"]
    /\ templates = {}
    /\ posts = <<>>
    /\ pages = <<>>
    /\ next = 1
    /\ copied = {}
    /\ out \in {<<>>, (PostFile_try_from(FilePath("first")).output_path :> Stale)}
    /\ outBefore = out
    /\ handed = {}
    /\ touched = {}
    /\ occurred = {}

Init == RenderInit /\ SplitIdle /\ DocumentIdle /\ ServeIdle

\* render_dir returns Err(error), raised at `step`
Fail(error, step) ==
    /\ pc' = "done"
    /\ result' = [ok |-> FALSE, error |-> error, step |-> step]
    /\ occurred' = occurred \cup {error}

\* a write into an output root emptied first
WriteOutputFresh(path, content, fault, torn, step, error) ==
    IF fault = "none"
    THEN /\ out' = (path :> content)
         /\ touched' = touched \cup {path}
         /\ UNCHANGED <<pc, result, occurred>>
    ELSE /\ Fail(error, step)
         /\ out' = IF fault = "write" /\ torn THEN (path :> Torn) ELSE <<>>
         /\ touched' = IF fault = "write" /\ torn THEN touched \cup {path}
                       ELSE touched

\* a write that would leave a file already there as it is
WriteOutputOnce(path, content, fault, torn, step, error) ==
    IF fault = "none"
    THEN /\ out' = out @@ (path :> content)
         /\ touched' = touched \cup {path}
         /\ UNCHANGED <<pc, result, occurred>>
    ELSE /\ Fail(error, step)
         /\ UNCHANGED <<out, touched>>

\* a staged write, which would discard the whole pass's output on a failure
WriteOutputStaged(path, content, fault, torn, step, error) ==
    IF fault = "none"
    THEN /\ out' = (path :> content) @@ out
         /\ touched' = touched \cup {path}
         /\ UNCHANGED <<pc, result, occurred>>
    ELSE /\ Fail(error, step)
         /\ out' = outBefore
         /\ touched' = {}

\* fs::create_dir_all(parent), then fs::write(output_path, content) or
\* fs::copy(p, output_path), under an I/O fault: none, or the error raised.
\* A failed write may have created or truncated the file already.
WriteOutput(path, content, fault, torn, step, error) ==
    IF fault = "none"
    THEN /\ out' = (path :> content) @@ out
         /\ touched' = touched \cup {path}
         /\ UNCHANGED <<pc, result, occurred>>
    ELSE /\ Fail(error, step)
         /\ out' = IF fault = "write" /\ torn THEN (path :> Torn) @@ out ELSE out
         /\ touched' = IF fault = "write" /\ torn THEN touched \cup {path}
                       ELSE touched

Faults == {"none", "render", "create_dir", "write"}

\* the sets of files a directory of the content root may hold
Directory(files, most) == {s \in SUBSET files : Cardinality(s) <= most}

\* let templates = load_templates(root_dir)?;  layouts/*.html holds both
\* templates or only default.html; Tera::new may fail on them.
LoadTemplates ==
    /\ pc = "load_templates"
    /\ \E layouts \in {{PostHtml, DefaultHtml}, {DefaultHtml}}, loaded \in BOOLEAN :
          /\ tree' = [tree EXCEPT !.layouts = layouts]
          /\ IF loaded
             THEN /\ templates' = layouts
                  /\ pc' = "read_posts"
                  /\ UNCHANGED <<result, occurred>>
             ELSE /\ Fail("Tera", "load_templates")
                  /\ UNCHANGED templates
    /\ UNCHANGED <<posts, pages, next, copied, out, outBefore, handed,
                   touched, doc, split, documentVars, serve>>

\* let mut posts = Post::read_from_directory(root_dir)?; posts.sort();
\* posts.reverse();  An error WalkDir yields is dropped by filter_map(e.ok()).
ReadPosts ==
    /\ pc = "read_posts"
    /\ \E files \in Directory(PostFiles, MaxPosts), walkError \in BOOLEAN :
        \E walk \in Orderings(files) :
        \E r \in {read_from_directory("Post", walk)} :
          LET seen  == IF walkError THEN {"WalkPosts"} ELSE {}
          IN  /\ tree' = [tree EXCEPT !.posts = files]
              /\ IF r.ok
                 THEN /\ posts' = Reverse(Sort(r.list))
                      /\ pc' = "render_posts"
                      /\ next' = 1
                      /\ occurred' = occurred \cup seen
                      /\ UNCHANGED result
                 ELSE /\ pc' = "done"
                      /\ result' = [ok |-> FALSE, error |-> r.error,
                                    step |-> "read_posts"]
                      /\ occurred' = occurred \cup seen \cup {r.error}
                      /\ UNCHANGED <<posts, next>>
    /\ UNCHANGED <<templates, pages, copied, out, outBefore, handed,
                   touched, doc, split, documentVars, serve>>

\* one turn of `for post in &posts { post.render(&templates, output_dir, &posts)?; }`
RenderPost ==
    /\ pc = "render_posts"
    /\ next <= Len(posts)
    /\ LET post == posts[next]
           list == HandedPosts(posts, next)
       IN  /\ handed' = handed \cup {[to |-> post.input_path, posts |-> list]}
           /\ \E fault \in Faults, torn \in BOOLEAN :
                 /\ post.template \notin templates => fault = "render"
                 /\ WriteOutput(post.output_path,
                                Rendered(post.template, post.input_path, list),
                                fault, torn, "render_posts",
                                CASE fault = "render" -> "Tera"
                                  [] fault = "create_dir" -> "CreateDir"
                                  [] OTHER -> "WriteFile")
                 /\ next' = IF fault = "none" THEN next + 1 ELSE next
    /\ UNCHANGED <<tree, templates, posts, pages, copied, outBefore, doc, split,
                   documentVars, serve>>

\* a loop that would be left at any turn
LeftEarly(list, n) == TRUE

\* a `for` loop over a list is left once every element has had its turn
LoopOver(list, n) == n > Len(list)

\* let pages = Page::read_from_directory(root_dir)?;
ReadPages ==
    /\ pc = "render_posts"
    /\ LoopOver(posts, next)
    /\ \E files \in Directory(PageFiles, MaxPages), walkError \in BOOLEAN :
        \E walk \in Orderings(files) :
        \E r \in {read_from_directory("Page", walk)} :
          LET seen  == IF walkError THEN {"WalkPages"} ELSE {}
          IN  /\ tree' = [tree EXCEPT !.pages = files]
              /\ IF r.ok
                 THEN /\ pages' = r.list
                      /\ pc' = "render_pages"
                      /\ next' = 1
                      /\ occurred' = occurred \cup seen
                      /\ UNCHANGED result
                 ELSE /\ pc' = "done"
                      /\ result' = [ok |-> FALSE, error |-> r.error,
                                    step |-> "read_pages"]
                      /\ occurred' = occurred \cup seen \cup {r.error}
                      /\ UNCHANGED <<pages, next>>
    /\ UNCHANGED <<templates, posts, copied, out, outBefore, handed,
                   touched, doc, split, documentVars, serve>>

\* a render that would keep the working copy as the shared template set
TemplatesKept(shared, working) == working

\* the template set render_dir holds after a page render: `templates` is
\* borrowed, and the clone made for a page that is not markdown is dropped
TemplatesAfter(shared, working) == shared

\* one turn of `for page in &pages { page.render(&templates, output_dir, &posts)?; }`
\* A markdown page renders its named template; any other page registers its
\* own content in a clone of the template set and renders that.
RenderPage ==
    /\ pc = "render_pages"
    /\ next <= Len(pages)
    /\ LET page     == pages[next]
           list     == HandedPosts(posts, Len(posts) + next)
           template == IF extension_is_markdown(page.extension)
                       THEN page.template
                       ELSE FileName(page.input_path)
           working  == IF extension_is_markdown(page.extension)
                       THEN templates
                       ELSE templates \cup {template}
       IN  /\ handed' = handed \cup {[to |-> page.input_path, posts |-> list]}
           /\ templates' = TemplatesAfter(templates, working)
           /\ \E fault \in Faults, torn \in BOOLEAN :
                 /\ template \notin working => fault = "render"
                 /\ WriteOutput(page.output_path,
                                Rendered(template, page.input_path, list),
                                fault, torn, "render_pages",
                                CASE fault = "render" -> "Tera"
                                  [] fault = "create_dir" -> "CreateDir"
                                  [] OTHER -> "WriteFile")
                 /\ next' = IF fault = "none" THEN next + 1 ELSE next
    /\ UNCHANGED <<tree, posts, pages, copied, outBefore, doc, split,
                   documentVars, serve>>

\* WalkDir::new(root_dir.join("direct_copy")): the regular files it yields.
\* An error it yields (a missing or unreadable directory or entry) is dropped
\* by filter_map(e.ok()).
WalkDirectCopy ==
    /\ pc = "render_pages"
    /\ LoopOver(pages, next)
    /\ \E files \in Directory(CopyFiles, MaxCopies), walkError \in BOOLEAN :
          /\ tree' = [tree EXCEPT !.copy = files]
          /\ occurred' = occurred \cup (IF walkError THEN {"WalkDirectCopy"} ELSE {})
    /\ pc' = "copy"
    /\ UNCHANGED <<result, templates, posts, pages, next, copied, out, outBefore,
                   handed, touched, doc, split, documentVars, serve>>

\* one turn of the loop over the direct_copy files
CopyFile ==
    /\ pc = "copy"
    /\ \E f \in tree.copy \ copied, fault \in {"none", "create_dir", "write"},
          torn \in BOOLEAN :
          /\ WriteOutput(CopyTarget(f), [kind |-> "copy", of |-> f],
                         fault, torn, "copy", "CopyDir")
          /\ copied' = IF fault = "none" THEN copied \cup {f} ELSE copied
    /\ UNCHANGED <<tree, templates, posts, pages, next, outBefore, handed,
                   doc, split, documentVars, serve>>

\* the loop over direct_copy ends: Ok(())
Finish ==
    /\ pc = "copy"
    /\ tree.copy \subseteq copied
    /\ pc' = "done"
    /\ result' = [ok |-> TRUE]
    /\ UNCHANGED <<tree, templates, posts, pages, next, copied, out, outBefore,
                   handed, touched, occurred, doc, split, documentVars, serve>>

Next ==
    \/ LoadTemplates
    \/ ReadPosts
    \/ RenderPost
    \/ ReadPages
    \/ RenderPage
    \/ WalkDirectCopy
    \/ CopyFile
    \/ Finish

Spec == Init /\ [][Next]_vars

----------------------------------------------------------------------------
(* Properties of the render pass.                                           *)

\* the paths of a list of posts or pages
InputPaths(list) == {list[k].input_path : k \in 1..Len(list)}

\* the error, if any, that resolving, reading and assembling a posts/ file raises
PostFailure(f) ==
    Let(PostFile_try_from(FilePath(f)), LAMBDA post_file :
        IF ~post_file.ok THEN {post_file.error}
        ELSE IF ~ReadToString(f).ok THEN {ReadToString(f).error}
        ELSE Let(Post_from_content(post_file, ReadToString(f).content),
                 LAMBDA post : IF post.ok THEN {} ELSE {post.error}))

\* render_dir has returned an error
Failed == pc = "done" /\ ~result.ok

\* C1: the posts list handed to every post render and every page render is
\* ordered by date, most recent first: no entry is dated before a later entry.
C1_HandedDateDescending ==
    \A h \in handed :
        \A i, j \in 1..Len(h.posts) :
            i < j => ~DateLess(h.posts[i].date, h.posts[j].date)

\* C2: every post render and every page render of a pass receives the same
\* posts list: the sorted list, unchanged since the sort, holding every post
\* assembled in the pass, the post being rendered included.
C2_SamePostsHanded ==
    \A h \in handed :
        /\ h.posts = posts
        /\ InputPaths(h.posts) = {FilePath(f) : f \in tree.posts}
        /\ h.to[1] = PostsDirectory => h.to \in InputPaths(h.posts)

\* a post render and a page render have both been handed a list of two or
\* more posts
C2_PostAndPageHanded ==
    /\ Len(posts) >= 2
    /\ \E h \in handed : h.to[1] = PostsDirectory
    /\ \E h \in handed : h.to[1] = PagesDirectory

\* C3: no output file is written until every file under posts/ has been
\* resolved, read and assembled into a Post; when a post fails, render_dir
\* returns that post's error and the output directory is as it was before.
C3_PostsBeforeOutput ==
    /\ touched # {} =>
          /\ \A f \in tree.posts : PostFailure(f) = {}
          /\ InputPaths(posts) = {FilePath(f) : f \in tree.posts}
    /\ (\E f \in tree.posts : PostFailure(f) # {}) =>
          /\ Failed
          /\ result.step = "read_posts"
          /\ \E f \in tree.posts : PostFailure(f) = {result.error}
          /\ out = outBefore
          /\ touched = {}

\* a pass over posts that all assemble has written output, and a pass with a
\* failing post has returned over existing output
C3_OutputAfterPosts == touched # {} /\ Len(posts) >= 2

C3_PostFailed ==
    /\ Failed
    /\ \E f \in tree.posts : PostFailure(f) # {}
    /\ \E f \in tree.posts : PostFailure(f) = {}
    /\ outBefore # <<>>

PostOutputs(n) == {posts[k].output_path : k \in 1..n}
PageOutputs(n) == {pages[k].output_path : k \in 1..n}
CopyOutputs == {StripPrefix(FilePath(f), <<DirectCopyDirectory>>).path : f \in copied}

\* the outputs of the documents rendered and the files copied before the step
\* at which the pass failed
CommittedAtFailure ==
    CASE result.step \in {"load_templates", "read_posts"} -> {}
      [] result.step = "render_posts" -> PostOutputs(next - 1)
      [] result.step = "read_pages" -> PostOutputs(Len(posts))
      [] result.step = "render_pages" ->
            PostOutputs(Len(posts)) \cup PageOutputs(next - 1)
      [] OTHER ->
            PostOutputs(Len(posts)) \cup PageOutputs(Len(pages)) \cup CopyOutputs

C5_OkOnlyWithoutError == (pc = "done" /\ result.ok) => occurred = {}

----------------------------------------------------------------------------
(* The splitter alone, on every bounded document.                           *)

RenderIdle ==
    /\ tree = [posts |-> {}, pages |-> {}, copy |-> {}, layouts |-> {},
               assets |-> {}]
    /\ pc = "idle"
    /\ result = [ok |-> FALSE, error |-> "running"]
    /\ templates = {}
    /\ posts = <<>>
    /\ pages = <<>>
    /\ next = 1
    /\ copied = {}
    /\ out = <<>>
    /\ outBefore = <<>>
    /\ handed = {}
    /\ touched = {}
    /\ occurred = {}

SplitInit ==
    /\ doc \in Docs
    /\ split = NoResult
    /\ RenderIdle
    /\ DocumentIdle
    /\ ServeIdle

\* one call of extract_frontmatter on the document
ExtractFrontmatter ==
    /\ split = NoResult
    /\ split' = extract_frontmatter(doc)
    /\ UNCHANGED doc
    /\ UNCHANGED renderVars
    /\ UNCHANGED documentVars
    /\ UNCHANGED serve

SplitNext == ExtractFrontmatter

SpecSplit == SplitInit /\ [][SplitNext]_vars

----------------------------------------------------------------------------
(* Properties of the splitter. In C6 to C9 a delimiter is an occurrence of   *)
(* the text `+++` followed by a line break; C10 is about what a delimiter is. *)

\* the splitter has returned
Returned == split # NoResult

\* the places of the document where `+++` and a line break stand
Occurrences(text) ==
    {i \in 1..Len(text) :
        /\ i + 3 <= Len(text)
        /\ text[i] = "+" /\ text[i + 1] = "+" /\ text[i + 2] = "+"
        /\ text[i + 3] = "\n"}

\* the n-th least element of a set of numbers
RECURSIVE Nth(_, _)
Nth(S, n) ==
    LET least == CHOOSE i \in S : \A j \in S : i <= j
    IN  IF n = 1 THEN least ELSE Nth(S \ {least}, n - 1)

\* the text before the first delimiter, between the first two, after the second
BeforeFirst(text)  == SubSeq(text, 1, Nth(Occurrences(text), 1) - 1)
BetweenFirstTwo(text) ==
    SubSeq(text, Nth(Occurrences(text), 1) + 4, Nth(Occurrences(text), 2) - 1)
AfterSecond(text)  == SubSeq(text, Nth(Occurrences(text), 2) + 4, Len(text))

HasText(text) == \E i \in 1..Len(text) : ~IsWhitespace(text[i])

\* C6: a document with fewer than two delimiters yields the empty frontmatter
\* and a body equal to the whole document, character for character.
C6_WholeTextIsBody ==
    (Returned /\ Cardinality(Occurrences(doc)) < 2) =>
        /\ split.ok
        /\ split.frontmatter = EmptyFrontmatter
        /\ split.body = doc

C8_FrontmatterBetweenFirstTwo ==
    (/\ Returned
     /\ Cardinality(Occurrences(doc)) >= 2
     /\ ~HasText(BeforeFirst(doc))) =>
        IF TomlFromStr(BetweenFirstTwo(doc)).ok
        THEN /\ split.ok
             /\ split.frontmatter = TomlFromStr(BetweenFirstTwo(doc)).table
        ELSE split = [ok |-> FALSE, error |-> "InvalidFrontmatter"]

\* whitespace, then a block that is not TOML, has been refused
C8_InvalidBlockRefused ==
    /\ Returned
    /\ Cardinality(Occurrences(doc)) >= 2
    /\ BeforeFirst(doc) # <<>>
    /\ ~HasText(BeforeFirst(doc))
    /\ HasText(BetweenFirstTwo(doc))
    /\ split = [ok |-> FALSE, error |-> "InvalidFrontmatter"]

\* C9: in a document with more than two delimiters the body is the text after
\* the second delimiter, every later delimiter back at its original place.
C9_BodyIsTextAfterSecond ==
    (Returned /\ split.ok /\ Cardinality(Occurrences(doc)) > 2) =>
        split.body = AfterSecond(doc)

\* the places where a line that is exactly `+++` starts; the last line of the
\* text needs no line break
DelimiterLines(text) ==
    {i \in 1..Len(text) :
        /\ i + 2 <= Len(text)
        /\ text[i] = "+" /\ text[i + 1] = "+" /\ text[i + 2] = "+"
        /\ (i = 1 \/ text[i - 1] = "\n")
        /\ (i + 2 = Len(text) \/ text[i + 3] = "\n")}

\* the places where the splitter cuts the document
SplitPoints(text) ==
    Let(Sections(text), LAMBDA sections :
        {Len(Join(SubSeq(sections, 1, k), Delimiter)) + 1 :
            k \in 1..(Len(sections) - 1)})

\* C10: the splitter cuts the document at `+++` exactly where `+++` is a line
\* of its own: not where it shares its line with other text, and also where
\* it ends the text without a line break.
C10_CutsAtDelimiterLines == Returned => SplitPoints(doc) = DelimiterLines(doc)

----------------------------------------------------------------------------
(* One document: its path resolved, its text assembled, its context built.  *)

\* the most parts, separated by "-", of a file name without its extension
MaxParts == 5

\* the parts file names are built from
NameParts ==
    { <<"2", "0", "2", "4">>, <<"1", "2">>, <<"2">>, <<"3", "0">>, <<"a">> }

\* the file names without extension: 1..MaxParts parts joined with "-"
Stems == UNION {{Join(ps, <<"-">>) : ps \in [1..n -> NameParts]} : n \in 1..MaxParts}

\* what follows the stem: no extension, the valid ones, an invalid one, and a
\* valid one after a further "."
Endings ==
    { <<>>,
      <<".">> \o Md, <<".">> \o Markdown, <<".">> \o Html, <<".">> \o Xml,
      <<".", "t", "x", "t">>,
      <<".", "b", ".">> \o Md }

\* the directories WalkDir finds files in, under posts/ and under pages/
PostDirectories == { <<PostsDirectory>>, <<PostsDirectory, <<"o", "l", "d">>>> }
PageDirectories == { <<PagesDirectory>>, <<PagesDirectory, <<"s", "u", "b">>>> }

PathsUnder(directories) ==
    {d \o <<stem \o ending>> : d \in directories, stem \in Stems, ending \in Endings}

\* the most lines in the body of a document
MaxLines == 3

\* the lines bodies are made of: text, the marker, another comment, a fence
\* without a language, with one and with an unknown one, an indented line
\* and the blank line
LineTexts ==
    { <<"a">>, <<"b">>, More, CommentOpen \o <<"x">> \o CommentClose,
      Fence, Fence \o Rs, Fence \o <<"z", "z">>, Indent \o <<"c">>, <<>> }

\* bodies of at most MaxLines lines, the last one with or without its break
Bodies ==
    UNION {{Join(ls, <<"\n">>) \o ending : ls \in [1..n -> LineTexts],
                                           ending \in {<<>>, <<"\n">>}}
           : n \in 0..MaxLines}

TemplateEntry == TemplateKey \o <<"=", "\"", "t", "\"", "\n">>
TitleEntry    == TitleKey \o <<"=", "\"", "a", "\"", "\n">>

\* frontmatter blocks: none, with a title, with a title and a template, with
\* a template only, empty, with a title that is no string, and invalid TOML
TitledBlock == Delimiter \o TitleEntry \o Delimiter
Blocks ==
    { <<>>,
      TitledBlock,
      Delimiter \o TitleEntry \o TemplateEntry \o Delimiter,
      Delimiter \o TemplateEntry \o Delimiter,
      Delimiter \o Delimiter,
      Delimiter \o TitleKey \o <<"=", "1", "\n">> \o Delimiter,
      Delimiter \o <<"x", "\n">> \o Delimiter }

\* the texts of a document: every block before a one-line body, and every
\* body alone, after a title and after a title and a template
Texts ==
    {block \o <<"h", "i", "\n">> : block \in Blocks}
        \cup {block \o body : block \in {<<>>, TitledBlock}, body \in Bodies}

\* one path that resolves for each kind and extension
SamplePaths ==
    { <<"Post", <<PostsDirectory, <<"2", "0", "2", "4", "-", "1", "2", "-",
                                    "2", "-", "a", ".", "m", "d">>>>>>,
      <<"Page", <<PagesDirectory, <<"a", ".", "m", "d">>>>>>,
      <<"Page", <<PagesDirectory, <<"a", ".">> \o Markdown>>>>,
      <<"Page", <<PagesDirectory, <<"a", ".">> \o Html>>>>,
      <<"Page", <<PagesDirectory, <<"a", ".">> \o Xml>>>> }

\* a document at any path, with one text
DocumentInit ==
    /\ \/ docKind = "Post" /\ docPath \in PathsUnder(PostDirectories)
       \/ docKind = "Page" /\ docPath \in PathsUnder(PageDirectories)
    /\ docText = TitledText
    /\ docFile = NoResult
    /\ docEntity = NoResult
    /\ docContext = NoResult
    /\ docParsed = NoResult
    /\ loopEvents = <<>>
    /\ loopAt = 0
    /\ loopState = LoopStart
    /\ RenderIdle
    /\ SplitIdle
    /\ ServeIdle

\* a document at one of a few paths, with any text
ContentInit ==
    /\ \E sample \in SamplePaths : docKind = sample[1] /\ docPath = sample[2]
    /\ docText \in Texts
    /\ docFile = NoResult
    /\ docEntity = NoResult
    /\ docContext = NoResult
    /\ docParsed = NoResult
    /\ loopEvents = <<>>
    /\ loopAt = 0
    /\ loopState = LoopStart
    /\ RenderIdle
    /\ SplitIdle
    /\ ServeIdle

\* Self::FileType::try_from(path)
Resolve ==
    /\ docFile = NoResult
    /\ docFile' = FileType_try_from(docKind, docPath)
    /\ UNCHANGED <<docKind, docPath, docText, docEntity, docContext, docParsed>>
    /\ UNCHANGED loopVars
    /\ UNCHANGED renderVars
    /\ UNCHANGED splitVars
    /\ UNCHANGED serve

\* Self::from_content(post_file, &content)
Assemble ==
    /\ docFile.ok
    /\ docEntity = NoResult
    /\ docEntity' = from_content(docKind, docFile, docText)
    /\ UNCHANGED <<docKind, docPath, docText, docFile, docContext, docParsed>>
    /\ UNCHANGED loopVars
    /\ UNCHANGED renderVars
    /\ UNCHANGED splitVars
    /\ UNCHANGED serve

\* self.to_context(), the first statement of render
ToContext ==
    /\ docEntity.ok
    /\ docContext = NoResult
    /\ docContext' = [ok |-> TRUE, value |-> to_context(docKind, docEntity.value)]
    /\ UNCHANGED <<docKind, docPath, docText, docFile, docEntity, docParsed>>
    /\ UNCHANGED loopVars
    /\ UNCHANGED renderVars
    /\ UNCHANGED splitVars
    /\ UNCHANGED serve

\* parser::parse_markdown(content), called on the text of the document
ParseMarkdown ==
    /\ docParsed = NoResult
    /\ docParsed' = parse_markdown(docText)
    /\ UNCHANGED <<docKind, docPath, docText, docFile, docEntity, docContext>>
    /\ UNCHANGED loopVars
    /\ UNCHANGED renderVars
    /\ UNCHANGED splitVars
    /\ UNCHANGED serve

DocumentNext == Resolve \/ Assemble

ContentNext == Resolve \/ Assemble \/ ToContext \/ ParseMarkdown

SpecDocument == DocumentInit /\ [][DocumentNext]_vars

SpecContent == ContentInit /\ [][ContentNext]_vars

\* the loop of parse_markdown, one event at a time, over the events of a body
LoopInit ==
    /\ \E body \in Bodies : loopEvents = MarkdownEvents(body)
    /\ loopAt = 0
    /\ loopState = LoopStart
    /\ docKind = "none"
    /\ docPath = <<>>
    /\ docText = <<>>
    /\ docFile = NoResult
    /\ docEntity = NoResult
    /\ docContext = NoResult
    /\ docParsed = NoResult
    /\ RenderIdle
    /\ SplitIdle
    /\ ServeIdle

\* for event in events { match event.clone() { ... } }
LoopTurn ==
    /\ loopAt < Len(loopEvents)
    /\ loopState' = LoopStep(loopState, loopEvents[loopAt + 1])
    /\ loopAt' = loopAt + 1
    /\ UNCHANGED <<loopEvents, docKind, docPath, docText, docFile, docEntity,
                   docContext, docParsed>>
    /\ UNCHANGED renderVars
    /\ UNCHANGED splitVars
    /\ UNCHANGED serve

LoopNext == LoopTurn

SpecLoop == LoopInit /\ [][LoopNext]_vars


----------------------------------------------------------------------------
(* Serve mode: Commands::Serve of main and watch::watch. A render pass is    *)
(* taken here as a call of render_dir that starts, runs for a while and      *)
(* returns Ok or Err; what it does in between is the render pass above.      *)
(* Paths are sequences of components, relative to the input directory.       *)

MaxEvents == 3

\* the output directory, and a path inside and a path outside of it
OutputDir == <<"site">>
InsidePath == <<"site", "index.html">>
OutsidePath == <<"posts", "2024-12-1-a.md">>

\* Path::starts_with(base): the components of base begin the path
starts_with(path, base) == StripPrefix(path, base).ok

\* the `paths` of the events notify may send
EventPaths ==
    { <<>>, <<InsidePath>>, <<OutsidePath>>, <<InsidePath, OutsidePath>>,
      <<OutsidePath, InsidePath>>, <<OutputDir>>, <<InsidePath, InsidePath>> }

\* what notify puts on the channel: Result<Event, notify::Error>
ChangeResults ==
    {[ok |-> TRUE, paths |-> paths] : paths \in EventPaths}
        \cup {[ok |-> FALSE, error |-> "notify"]}

\* event.paths.iter().any(...), the test inverted
AnyInside(event) ==
    \E i \in 1..Len(event.paths) : starts_with(event.paths[i], OutputDir)

\* event.paths.iter().all(|p| p.starts_with(output_dir))
AllInside(event) ==
    \A i \in 1..Len(event.paths) : starts_with(event.paths[i], OutputDir)

\* the threads may be spawned while the first render is still running
InitialRenderBegun(main) == main \in {"rendering", "spawn_server"}

\* main reaches thread::spawn only when render_dir(...).unwrap_or_else(...)
\* has returned
InitialRenderDone(main) == main = "spawn_server"

ServeInit ==
    /\ serve = [ServeUnstarted EXCEPT !.main = "render"]
    /\ RenderIdle
    /\ SplitIdle
    /\ DocumentIdle

\* main: render::render_dir(&input_dir, &output_dir) is called
InitialRenderStart ==
    /\ serve.main = "render"
    /\ serve' = [serve EXCEPT !.main = "rendering",
                              !.rendering = @ \cup {"main"},
                              !.renders = @ + 1]
    /\ UNCHANGED <<renderVars, splitVars, documentVars>>

\* main: the call returns; on Err the closure of unwrap_or_else panics
InitialRenderReturn ==
    /\ serve.main = "rendering"
    /\ \E ok \in BOOLEAN :
          serve' = [serve EXCEPT !.main = IF ok THEN "spawn_server" ELSE "panicked",
                                 !.rendering = @ \ {"main"}]
    /\ UNCHANGED <<renderVars, splitVars, documentVars>>

\* main: let server = thread::spawn(move || serve::serve(...))
SpawnServer ==
    /\ InitialRenderDone(serve.main)
    /\ serve' = [serve EXCEPT !.main = "spawn_watcher", !.server = "serving"]
    /\ UNCHANGED <<renderVars, splitVars, documentVars>>

\* main: let watcher = thread::spawn(move || watch::watch(...)), then the joins
SpawnWatcher ==
    /\ serve.main = "spawn_watcher"
    /\ serve' = [serve EXCEPT !.main = "join", !.watcher = "watch"]
    /\ UNCHANGED <<renderVars, splitVars, documentVars>>

\* watcher thread: the channel and the watcher are made and
\* watcher.watch(input_dir, Recursive)? succeeds, or watch returns the error
\* and the closure of unwrap_or_else panics
Watch ==
    /\ serve.watcher = "watch"
    /\ \E ok \in BOOLEAN :
          serve' = [serve EXCEPT !.watcher = IF ok THEN "recv" ELSE "panicked"]
    /\ UNCHANGED <<renderVars, splitVars, documentVars>>

\* notify: a change under the input directory, or an error, is sent
Notify ==
    /\ serve.watcher \in {"recv", "rendering"}
    /\ Len(serve.sent) < MaxEvents
    /\ \E r \in ChangeResults :
          serve' = [serve EXCEPT !.channel = Append(@, r), !.sent = Append(@, r)]
    /\ UNCHANGED <<renderVars, splitVars, documentVars>>

\* watcher thread: `for result in rx` takes the next result; an error is
\* logged, an event whose paths all start with output_dir is passed over,
\* and for any other event render_dir is called
Receive ==
    /\ serve.watcher = "recv"
    /\ serve.channel # <<>>
    /\ LET r == Head(serve.channel)
       IN  IF ~r.ok
           THEN serve' = [serve EXCEPT
                    !.channel = Tail(@),
                    !.logged = Append(@, "change event error"),
                    !.handled = Append(@, [result |-> r, render |-> "none"])]
           ELSE IF AllInside(r)
           THEN serve' = [serve EXCEPT
                    !.channel = Tail(@),
                    !.handled = Append(@, [result |-> r, render |-> "none"])]
           ELSE serve' = [serve EXCEPT
                    !.channel = Tail(@),
                    !.watcher = "rendering",
                    !.current = r,
                    !.rendering = @ \cup {"watcher"},
                    !.renders = @ + 1]
    /\ UNCHANGED <<renderVars, splitVars, documentVars>>

\* watcher thread: render_dir returns; on Err the closure of unwrap_or_else
\* logs the error, and the loop goes round
RenderReturn ==
    /\ serve.watcher = "rendering"
    /\ \E ok \in BOOLEAN :
          serve' = [serve EXCEPT
              !.watcher = "recv",
              !.current = NoResult,
              !.rendering = @ \ {"watcher"},
              !.logged = IF ok THEN @ ELSE Append(@, "Error rendering posts and pages"),
              !.handled = Append(@, [result |-> serve.current,
                                     render |-> IF ok THEN "ok" ELSE "failed"])]
    /\ UNCHANGED <<renderVars, splitVars, documentVars>>

ServeNext ==
    \/ InitialRenderStart
    \/ InitialRenderReturn
    \/ SpawnServer
    \/ SpawnWatcher
    \/ Watch
    \/ Notify
    \/ Receive
    \/ RenderReturn

SpecServe == ServeInit /\ [][ServeNext]_vars


----------------------------------------------------------------------------
(* Properties of path resolution.                                           *)

PostResolved == docKind = "Post" /\ docFile # NoResult
PageResolved == docKind = "Page" /\ docFile # NoResult

\* the file name of the document, and where its last "." stands (0: nowhere)
NameText == docPath[Len(docPath)]
DotAt == LET dots == {i \in 2..Len(NameText) : NameText[i] = "."}
         IN  IF dots = {} THEN 0 ELSE CHOOSE i \in dots : \A j \in dots : j <= i

\* the file name without its extension, and the extension
StemText == IF DotAt = 0 THEN NameText ELSE SubSeq(NameText, 1, DotAt - 1)
ExtensionText == IF DotAt = 0 THEN <<>> ELSE SubSeq(NameText, DotAt + 1, Len(NameText))

\* where the "-" of the stem stand, and its parts
Hyphens == {i \in 1..Len(StemText) : StemText[i] = "-"}
StemParts == Split(StemText, <<"-">>)

\* y, m, d are texts of 4, 2 and 2 digits that name a day of the calendar
IsIsoDate(y, m, d) ==
    /\ Len(y) = 4 /\ Len(m) = 2 /\ Len(d) = 2
    /\ AllDigits(y) /\ AllDigits(m) /\ AllDigits(d)
    /\ ParseNumber(m) \in 1..12
    /\ ParseNumber(d) \in 1..DaysInMonth(ParseNumber(y), ParseNumber(m))

\* C11: post path resolution returns a ContentFile exactly when the file name
\* without extension has at least four parts between "-", the first three are
\* a date written YYYY-MM-DD, and the extension is md or markdown; otherwise
\* it returns an error and nothing else.
C11_PostAcceptedIffWellFormed ==
    PostResolved =>
        /\ docFile.ok <=>
              /\ Len(StemParts) >= 4
              /\ IsIsoDate(StemParts[1], StemParts[2], StemParts[3])
              /\ ExtensionText \in {Md, Markdown}
        /\ ~docFile.ok => DOMAIN docFile = {"ok", "error"}

\* C12: for an accepted post path the date is the one the first three parts
\* denote and the slug is the rest of the name after the third "-", its own
\* "-" kept.
C12_DateAndSlugFromName ==
    (PostResolved /\ docFile.ok) =>
        /\ docFile.date = <<ParseNumber(StemParts[1]), ParseNumber(StemParts[2]),
                            ParseNumber(StemParts[3])>>
        /\ docFile.slug = SubSeq(StemText, Nth(Hyphens, 3) + 1, Len(StemText))

\* a post whose slug holds a "-" has been resolved
C12_HyphenInSlug ==
    /\ PostResolved
    /\ docFile.ok
    /\ \E i \in 1..Len(docFile.slug) : docFile.slug[i] = "-"

\* a number below 10000 in four digits, a number below 100 in two
FourDigits(n) ==
    <<Digits[(n \div 1000) + 1], Digits[((n \div 100) % 10) + 1],
      Digits[((n \div 10) % 10) + 1], Digits[(n % 10) + 1]>>
TwoDigits(n) == <<Digits[(n \div 10) + 1], Digits[(n % 10) + 1]>>

\* a number as its plain decimal text, no padding
RECURSIVE PlainNumber(_)
PlainNumber(n) ==
    IF n < 10 THEN <<Digits[n + 1]>>
    ELSE PlainNumber(n \div 10) \o <<Digits[(n % 10) + 1]>>

\* C13 as stated: the output path of a resolved post is {year}/{month}/{slug}.html
\* with the month a plain number, not zero-padded.
C13_MonthNotPadded ==
    (PostResolved /\ docFile.ok) =>
        docFile.output_path =
            <<PlainNumber(docFile.date[1]), PlainNumber(docFile.date[2]),
              docFile.slug \o DotHtml>>

\* C13, amended: the output path of a resolved post is {year}/{month}/{slug}.html
\* with the year in four digits and the month in two, both zero-padded.
C13_MonthPadded ==
    (PostResolved /\ docFile.ok) =>
        docFile.output_path =
            <<FourDigits(docFile.date[1]), TwoDigits(docFile.date[2]),
              docFile.slug \o DotHtml>>

\* a post of a month below 10 has been resolved
C13_SingleDigitMonth ==
    /\ PostResolved
    /\ docFile.ok
    /\ docFile.date[2] < 10
    /\ docFile.output_path[2] = <<"0", "2">>

\* C14: for a resolved file of either kind, url is output_path after one
\* leading "/".
C14_UrlIsRootedOutputPath ==
    (docFile # NoResult /\ docFile.ok) =>
        docFile.url = <<RootDir>> \o docFile.output_path

\* C15: page path resolution rejects with a path error every path whose
\* extension is not md, markdown, html or xml, a path without extension
\* included, and accepts every path under pages/ with one of the four.
C15_PageExtensions ==
    PageResolved =>
        IF ExtensionText \in {Md, Markdown, Html, Xml}
        THEN docFile.ok
        ELSE docFile = [ok |-> FALSE, error |-> "Path"]

\* a page path without extension has been rejected
C15_NoExtensionRejected ==
    /\ PageResolved
    /\ ExtensionText = <<>>
    /\ docFile = [ok |-> FALSE, error |-> "Path"]

\* C16: for an accepted page path the slug is the file name without its
\* extension, and output_path is the path below pages/ with the extension
\* html in place of md or markdown, and with html or xml kept.
C16_PageSlugAndOutputPath ==
    (PageResolved /\ docFile.ok) =>
        /\ docFile.slug = StemText
        /\ docFile.output_path =
              SubSeq(docPath, 2, Len(docPath) - 1)
                 \o <<StemText \o <<".">>
                        \o (IF ExtensionText \in {Md, Markdown} THEN Html
                            ELSE ExtensionText)>>

\* a markdown page in a subdirectory of pages/ has been resolved
C16_NestedMarkdownPage ==
    /\ PageResolved
    /\ docFile.ok
    /\ Len(docPath) = 3
    /\ ExtensionText = Markdown
    /\ docFile.output_path[1] = docPath[2]

----------------------------------------------------------------------------
(* Properties of document assembly.                                         *)

\* from_content has returned
Assembled == docEntity # NoResult

\* the frontmatter block of the text, as the splitter cuts it
Block == extract_frontmatter(docText)

\* the text splits, and its frontmatter has no `title` key
NoTitleKey == Block.ok /\ Entries(Block.frontmatter, TitleKey) = {}

\* C17: assembling a post or a page whose frontmatter has no `title` key, a
\* document with no frontmatter at all included, fails with the
\* frontmatter-schema error: there is no entity, and so no context either.
C17_TitleRequired ==
    (Assembled /\ NoTitleKey) =>
        /\ docEntity = [ok |-> FALSE, error |-> "ParseFrontmatter"]
        /\ docContext = NoResult

\* a page that is not markdown, without any frontmatter, was refused
C17_NoFrontmatterRefused ==
    /\ Assembled
    /\ docKind = "Page"
    /\ docFile.extension = Xml
    /\ Find(docText, Delimiter) = 0
    /\ docEntity = [ok |-> FALSE, error |-> "ParseFrontmatter"]

\* the value of the `template` key of the frontmatter, when there is one
TemplateGiven == Block.ok /\ Entries(Block.frontmatter, TemplateKey) # {}
TemplateValue == (CHOOSE e \in Entries(Block.frontmatter, TemplateKey) : TRUE).value

\* the default template of the kind of the document: post, default
KindDefault ==
    IF docKind = "Post" THEN <<"p", "o", "s", "t">>
    ELSE <<"d", "e", "f", "a", "u", "l", "t">>

\* C18, as stated: every assembled post and every assembled page, of any valid
\* extension, has for template name the `template` of its frontmatter when
\* there is one and else the default of its kind, with .html appended once.
C18_TemplateFromFrontmatter ==
    docEntity.ok =>
        docEntity.value.template =
            (IF TemplateGiven THEN TemplateValue ELSE KindDefault) \o DotHtml

\* C18, amended: that holds of posts and of markdown pages; a page of
\* extension html or xml has the default template name whatever its
\* frontmatter says.
C18_TemplateFromFrontmatterIfMarkdown ==
    docEntity.ok =>
        docEntity.value.template =
            (IF TemplateGiven /\ docFile.extension \in {Md, Markdown}
             THEN TemplateValue ELSE KindDefault) \o DotHtml

\* an html page whose frontmatter names a template was given the default one
C18_TemplateIgnored ==
    /\ docEntity.ok
    /\ docKind = "Page"
    /\ docFile.extension = Html
    /\ TemplateGiven
    /\ TemplateValue # KindDefault
    /\ docEntity.value.template = KindDefault \o DotHtml

----------------------------------------------------------------------------
(* Properties of the markdown renderer.                                     *)

\* the lines of the body that are the marker followed by a line break
MarkerLines ==
    {i \in DOMAIN BodyLines(Block.body) :
        BodyLines(Block.body)[i] = [text |-> More, terminated |-> TRUE]}

\* the body before its first marker line
BeforeMarker ==
    LET lines == BodyLines(Block.body)
        first == CHOOSE i \in MarkerLines : \A j \in MarkerLines : i <= j
    IN  Concat([i \in 1..(first - 1) |-> WithBreak(lines[i])])

\* C19: the markdown renderer returns an excerpt only when the body holds the
\* marker line followed by a line break, and the excerpt is then the rendering
\* of the body before the first marker; without a marker there is no excerpt.
C19_ExcerptOnlyWithMarker ==
    (docParsed.ok /\ docParsed.excerpt.some) =>
        /\ MarkerLines # {}
        /\ docParsed.excerpt.value = parse_markdown(BeforeMarker).body

\* to_context has returned the context of a post
PostContext == docContext.ok /\ docKind = "Post"

\* C20: the context of every post render holds, under the key `excerpt`, the
\* excerpt HTML when the body has a marker and the HTML of the whole body
\* when it has none.
C20_ExcerptInContext ==
    PostContext =>
        /\ "excerpt" \in DOMAIN docContext.value
        /\ docContext.value.excerpt =
               IF MarkerLines # {} THEN parse_markdown(BeforeMarker).body
               ELSE docContext.value.body

\* the code blocks of the body, in order: the Start event of each
CodeBlocks ==
    SelectSeq(MarkdownEvents(Block.body),
              LAMBDA e : e.type = "Start" /\ e.tag = "CodeBlock")

\* the markup that opens the highlighting of a syntax
IsSpan(c) == c \in {"<span rust>", "<span python>", "<span plain>"}

\* the highlighting a code block is to get from its own fence
OwnSpan(start) ==
    IF start.kind = "Fenced" /\ start.text = <<"r", "s">> THEN "<span rust>"
    ELSE IF start.kind = "Fenced" /\ start.text = <<"p", "y">>
    THEN "<span python>"
    ELSE "<span plain>"

\* C21: each code block is highlighted with the language of its own fence; a
\* fence with no token or an unknown one, and every indented code block, is
\* highlighted as plain text, whatever code blocks came before.
C21_HighlightedByOwnFence ==
    docParsed.ok =>
        SelectSeq(docParsed.body, IsSpan)
            = [i \in 1..Len(CodeBlocks) |-> OwnSpan(CodeBlocks[i])]

\* a is b, or the beginning of b
IsPrefix(a, b) == Len(a) <= Len(b) /\ a = SubSeq(b, 1, Len(a))

\* C29: at every step of the markdown event loop the excerpt events are a
\* prefix of the body events, and once the marker has been seen the flag stays
\* false and no event is added to the excerpt.
C29_ExcerptIsPrefix ==
    /\ [](IsPrefix(loopState.excerpt_events, loopState.highlighted_events))
    /\ [][~loopState.still_excerpting =>
             /\ ~loopState'.still_excerpting
             /\ loopState'.excerpt_events = loopState.excerpt_events]_vars

\* the marker came after some events, and events were pushed after it
C29_PushedAfterMarker ==
    /\ ~loopState.still_excerpting
    /\ loopState.excerpt_events # <<>>
    /\ Len(loopState.highlighted_events) > Len(loopState.excerpt_events)

\* the loop has taken every event
LoopDone == loopAt = Len(loopEvents)

\* one highlighted raw-HTML event, whatever its markup
HighlightedEvent == Event("Html", "", <<"<pre>">>)

\* the events a rendered body is to hold for the events from i on: those
\* outside code blocks, the marker aside, and one highlighted event for each
\* code block
RECURSIVE KeptFrom(_, _, _)
KeptFrom(events, i, inside) ==
    IF i > Len(events) THEN <<>>
    ELSE LET e == events[i]
         IN  IF inside
             THEN IF e.type = "End" /\ e.tag = "CodeBlock"
                  THEN <<HighlightedEvent>> \o KeptFrom(events, i + 1, FALSE)
                  ELSE KeptFrom(events, i + 1, TRUE)
             ELSE IF e.type = "Start" /\ e.tag = "CodeBlock"
             THEN KeptFrom(events, i + 1, TRUE)
             ELSE IF e.type = "Html" /\ e.text = MoreLine
             THEN KeptFrom(events, i + 1, FALSE)
             ELSE <<e>> \o KeptFrom(events, i + 1, FALSE)

\* the events of the rendered body, each highlighted event without its markup
BodyEvents ==
    [i \in 1..Len(loopState.highlighted_events) |->
        LET e == loopState.highlighted_events[i]
        IN  IF e.type = "Html" /\ Len(e.text) > 0 /\ e.text[1] = "<pre>"
            THEN HighlightedEvent ELSE e]

\* C30: the rendered body keeps every event outside a code block, in order,
\* raw HTML blocks other than the marker included; the events of each code
\* block are replaced by exactly one highlighted raw-HTML event.
C30_BodyKeepsEvents ==
    LoopDone => BodyEvents = KeptFrom(loopEvents, 1, FALSE)

----------------------------------------------------------------------------
(* More properties of the render pass.                                      *)

\* render_dir has returned Ok(())
Succeeded == pc = "done" /\ result.ok

\* the bytes of a file of the content root, as a file of the output root
CopyOf(f) == [kind |-> "copy", of |-> f]

\* the path of a file relative to the directory of the content root it is in
RelativeLocation(f) == Tail(FilePath(f))

\* C22, as stated: after a successful pass every file under assets/ and every
\* file under direct_copy/ is under the output root, at the same relative
\* location and with the same bytes.
C22_PassThroughCopied ==
    Succeeded =>
        \A f \in tree.copy \cup tree.assets :
            /\ RelativeLocation(f) \in DOMAIN out
            /\ out[RelativeLocation(f)] = CopyOf(f)

\* C22, amended: that holds of the files the walk of direct_copy/ yields; no
\* file under assets/ is copied anywhere.
C22_DirectCopyCopied ==
    Succeeded =>
        /\ \A f \in tree.copy :
              /\ RelativeLocation(f) \in DOMAIN out
              /\ out[RelativeLocation(f)] = CopyOf(f)
        /\ \A f \in tree.assets, path \in DOMAIN out : out[path] # CopyOf(f)

\* a pass succeeded on a content root with a nested direct_copy file and a
\* file under assets/
C22_CopiedButNotAssets ==
    /\ Succeeded
    /\ "logo" \in tree.copy
    /\ tree.assets # {}

\* the output paths of the posts, pages and direct_copy files of the pass
PassOutputs ==
    PostOutputs(Len(posts)) \cup PageOutputs(Len(pages))
        \cup {RelativeLocation(f) : f \in tree.copy}

\* C23: a render pass deletes nothing: every file that was under the output
\* root before the pass is still there, and with the content it had unless
\* its path is an output path of a post, page or direct_copy file of the pass.
C23_NothingDeleted ==
    /\ DOMAIN outBefore \subseteq DOMAIN out
    /\ \A path \in DOMAIN outBefore \ PassOutputs : out[path] = outBefore[path]

\* a pass wrote output and succeeded beside a file of an earlier pass
C23_StaleFileKept ==
    /\ Succeeded
    /\ touched # {}
    /\ \E path \in DOMAIN outBefore : path \notin touched /\ out[path] = Stale

\* C24: a page render, successful or failed, of a page that is markdown or
\* not, leaves the template set shared by the documents of the pass as it
\* was: the page's own content is registered in a working copy only.
C24_SharedTemplatesKept ==
    [][pc = "render_pages" => templates' = templates]_vars

\* a page that is not markdown has been rendered, and the template set is the
\* one that was loaded
C24_OwnTemplateDiscarded ==
    /\ pc = "render_pages"
    /\ next > 1
    /\ ~extension_is_markdown(pages[next - 1].extension)
    /\ FileName(pages[next - 1].input_path) \notin templates
    /\ templates = tree.layouts

\* the pages directory has been enumerated; the copy of direct_copy has begun
PagesEnumerated ==
    \/ pc \in {"render_pages", "copy"}
    \/ pc = "done" /\ (result.ok \/ result.step \in {"read_pages", "render_pages", "copy"})
CopyBegun ==
    \/ pc = "copy"
    \/ pc = "done" /\ (result.ok \/ result.step = "copy")

\* C25: the steps of a pass are strictly ordered: every post output is written
\* before the pages directory is enumerated, every page output before the
\* first direct_copy file is copied, and after a failure no later step starts.
C25_StepsInOrder ==
    /\ PagesEnumerated =>
          \A k \in 1..Len(posts) : posts[k].output_path \in touched
    /\ CopyBegun =>
          \A k \in 1..Len(pages) : pages[k].output_path \in touched
    /\ ~PagesEnumerated => tree.pages = {} /\ pages = <<>>
    /\ ~CopyBegun => tree.copy = {} /\ copied = {}
    /\ (Failed /\ result.step = "load_templates") =>
          tree.posts = {} /\ posts = <<>> /\ touched = {}

\* the copy has begun in a pass that rendered posts and pages
C25_CopyAfterDocuments ==
    /\ pc = "copy"
    /\ tree.copy # {}
    /\ Len(posts) > 1
    /\ Len(pages) > 1

\* C26, as stated: within one pass no output path is written twice: every
\* write that changes the output root goes to a path not written before in
\* the pass.
C26_NoPathWrittenTwice == [][out' # out => touched' # touched]_vars

\* the output of a rendered document is at its path
RenderedAt(path, source) ==
    /\ path \in DOMAIN out
    /\ out[path].kind = "rendered"
    /\ out[path].source = source

\* C26, amended: every post, page and direct_copy file is written to its own
\* output path, with no check that the paths differ: of the sources written
\* to one path the last one (posts in the order of the list, then pages, then
\* direct_copy files) is what the path holds after a successful pass.
C26_LastWriteStays ==
    Succeeded =>
        /\ PassOutputs \subseteq touched
        /\ \A f \in tree.copy : out[RelativeLocation(f)] = CopyOf(f)
        /\ \A k \in 1..Len(pages) :
              (/\ \A f \in tree.copy : RelativeLocation(f) # pages[k].output_path
               /\ \A j \in (k + 1)..Len(pages) :
                     pages[j].output_path # pages[k].output_path)
                  => RenderedAt(pages[k].output_path, pages[k].input_path)
        /\ \A k \in 1..Len(posts) :
              (/\ \A f \in tree.copy : RelativeLocation(f) # posts[k].output_path
               /\ \A j \in 1..Len(pages) :
                     pages[j].output_path # posts[k].output_path
               /\ \A j \in (k + 1)..Len(posts) :
                     posts[j].output_path # posts[k].output_path)
                  => RenderedAt(posts[k].output_path, posts[k].input_path)

\* a pass succeeded in which two posts had the same output path
C26_PostOverwritten ==
    /\ Succeeded
    /\ \E i, j \in 1..Len(posts) :
          i < j /\ posts[i].output_path = posts[j].output_path


----------------------------------------------------------------------------
(* Properties of serve mode.                                                *)

ThreadsStarted == serve.server # "unstarted" \/ serve.watcher # "unstarted"

\* C27: in serve mode at most one render pass runs at any time: the server and
\* watcher threads exist only once the initial render has returned, and the
\* watcher thread is inside at most one render_dir, every earlier one having
\* returned.
C27_OneRenderAtATime ==
    /\ Cardinality(serve.rendering) <= 1
    /\ ThreadsStarted =>
          /\ serve.main \in {"spawn_watcher", "join"}
          /\ "main" \notin serve.rendering
    /\ serve.renders =
          1 + Cardinality({i \in 1..Len(serve.handled) :
                               serve.handled[i].render # "none"})
            + (IF serve.watcher = "rendering" THEN 1 ELSE 0)
          - (IF serve.main = "render" THEN 1 ELSE 0)

\* the watcher is inside its second render, the initial one long returned
C27_WatcherRendersAgain ==
    /\ serve.watcher = "rendering"
    /\ serve.renders = 3
    /\ serve.server = "serving"

\* the results the loop has taken from the channel, in the order it took them
Taken ==
    [i \in 1..Len(serve.handled) |-> serve.handled[i].result]
        \o (IF serve.watcher = "rendering" THEN <<serve.current>> ELSE <<>>)

\* a change event with at least one path that is not under "site"
HasPathOutside(r) ==
    /\ r.ok
    /\ \E i \in 1..Len(r.paths) : r.paths[i][1] # "site"

\* C28: the watcher loop takes the change events in the order they arrived,
\* runs one render_dir for each event with a path outside the output directory
\* and none for the others, only logs a failed render or an event error, and
\* stays in the loop.
C28_OneRenderPerOutsideEvent ==
    /\ serve.sent = Taken \o serve.channel
    /\ \A i \in 1..Len(serve.handled) :
          /\ serve.handled[i].render # "none" <=> HasPathOutside(serve.sent[i])
          /\ serve.handled[i].result = serve.sent[i]
    /\ serve.watcher = "rendering" => HasPathOutside(serve.current)
    /\ Len(serve.logged) =
          Cardinality({i \in 1..Len(serve.handled) :
                          \/ ~serve.handled[i].result.ok
                          \/ serve.handled[i].render = "failed"})
    /\ serve.sent # <<>> => serve.watcher \in {"recv", "rendering"}

\* a render failed, an event error came, and a later event was rendered
C28_LoopGoesOnAfterFailure ==
    /\ Len(serve.handled) = 3
    /\ serve.handled[1].render = "failed"
    /\ ~serve.handled[2].result.ok
    /\ serve.handled[3].render = "ok"
    /\ Len(serve.handled[3].result.paths) = 2

=============================================================================
